---- MODULE Spec2Model ----
(***************************************************************************)
(* Payment reconciliation core of Duespay_backend: the initiate-payment    *)
(* view, the Paystack webhook view and the payment-status view of          *)
(* transactions/views.py, with the helpers of transactions/               *)
(* paystackServices.py they call.                                          *)
(*                                                                         *)
(* Money is held in kobo (integer hundredths of a naira), which is what a  *)
(* Decimal quantized to 0.01 denotes.  An HTTP status of 500 stands for an *)
(* exception that leaves the view uncaught.                                *)
(***************************************************************************)
EXTENDS Integers, Sequences, FiniteSets, TLC

\* ---------------------------------------------------------------- bounds
MaxRefs == 2        \* reference ids the Transaction table can hand out
MaxIds == 2         \* longest payment_item_ids list a request carries
MaxOffset == 3      \* kobo either side of each amount the calculator is tried at
MaxBanks == 2       \* longest list of banks the provider answers with
MaxSessions == 3    \* Session rows an association comes to have

\* ------------------------------------------------------------- database
References == 1..MaxRefs
NoRef == 0

Workers == {"w1", "w2"}

PayerIds == {1}
AssociationIds == {1}
SessionIds == {1, 2}
BadId == 0

\* PaymentItem rows: id -> session and price (kobo)
ItemIds == {1, 2, 3}
MissingItemId == 9
ItemSession == (1 :> 1) @@ (2 :> 1) @@ (3 :> 2)
ItemAmount == (1 :> 100000) @@ (2 :> 250000) @@ (3 :> 500000)

Range(s) == {s[i] : i \in DOMAIN s}

RECURSIVE SumAmounts(_)
SumAmounts(S) ==
  IF S = {} THEN 0
  ELSE LET i == CHOOSE x \in S : TRUE IN ItemAmount[i] + SumAmounts(S \ {i})

\* ------------------------------------------------------- fee calculator
PercentNumerator == 15
FlatFee == 10000
FlatFeeThreshold == 250000
FeeCap == 200000

\* Decimal.quantize(Decimal("0.01"), rounding=ROUND_HALF_UP) of kobo*15/1000
QuantizeDown(num, den) == num \div den

QuantizeHalfUp(num, den) == (2 * num + den) \div (2 * den)

\* Decimal.quantize(Decimal("0.01")) with no rounding argument rounds as the
\* decimal context does, ROUND_HALF_EVEN
QuantizeHalfEven(num, den) ==
  LET q == num \div den
      r == num % den
  IN IF 2 * r > den \/ (2 * r = den /\ q % 2 = 1) THEN q + 1 ELSE q

\* a Decimal of two fraction digits (kobo) as the amount the calculator is
\* handed, which it reads in thousandths of a naira
Thousandths(kobo) == kobo * 10

\* the fraction digits of a Decimal quantized to Decimal("0.01") or written
\* as the literals "100.00", "2500.00" and "2000.00" are
QuantizePlaces == 2

\* the fraction digits of the sum of two Decimals: those of the longer one
SumPlaces(a, b) == IF a > b THEN a ELSE b

\* total_amount = base_amount + transaction_fee
TotalAmountOfBaseOnly(base_amount, transaction_fee) == base_amount

TotalAmount(base_amount, transaction_fee) == base_amount + transaction_fee

\* the flat fee is waived for transactions under the threshold
WaivedFromThreshold(base_amount) == base_amount >= FlatFeeThreshold

Waived(base_amount) == base_amount < FlatFeeThreshold

\* amount: thousandths of a naira; the values returned: kobo, and the number
\* of fraction digits each Decimal returned is written with
calculate_paystack_charges(amount) ==
  LET base_amount == QuantizeHalfEven(amount, 10)
      percentage_fee == QuantizeHalfUp(base_amount * PercentNumerator, 1000)
      with_flat == percentage_fee + FlatFee
      waived == IF Waived(base_amount) THEN percentage_fee ELSE with_flat
      transaction_fee == IF waived > FeeCap THEN FeeCap ELSE waived
      fee_places == IF waived > FeeCap THEN QuantizePlaces
                    ELSE IF Waived(base_amount) THEN QuantizePlaces
                    ELSE SumPlaces(QuantizePlaces, QuantizePlaces)
  IN [base_amount |-> base_amount,
      transaction_fee |-> transaction_fee,
      total_amount |-> TotalAmount(base_amount, transaction_fee),
      places |-> [base_amount |-> QuantizePlaces,
                  transaction_fee |-> fee_places,
                  total_amount |-> SumPlaces(QuantizePlaces, fee_places)]]

\* the amounts the calculator is exercised with, in thousandths of a naira:
\* those within MaxOffset kobo of the amounts where its answer changes shape
FeePoints == {0, 100, 100000, 250000, 500000, 12666700, 15000000}

FeeInputs ==
  {a \in {Thousandths(p + k) + t :
            p \in FeePoints, k \in (0 - MaxOffset)..MaxOffset, t \in 0..9} : a >= 0}

\* --------------------------------------------------------------- gateway
\* What the provider call made by paystack_init_charge can come to.
GatewayOutcomes ==
  {"ok", "topurl", "nourl", "emptyurl", "nodata", "declined", "timeout"}

\* response_data, the dict _handle_response makes of the provider's answer
\* ("timeout": Transaction.initialize raised and there is none)
ResponseData(outcome) ==
  CASE outcome = "ok" ->
         [status |-> "True", top_url |-> "absent", data |-> "dict", data_url |-> "url"]
    [] outcome = "topurl" ->
         [status |-> "absent", top_url |-> "url", data |-> "absent", data_url |-> "absent"]
    [] outcome = "nourl" ->
         [status |-> "True", top_url |-> "absent", data |-> "dict", data_url |-> "absent"]
    [] outcome = "emptyurl" ->
         [status |-> "True", top_url |-> "absent", data |-> "dict", data_url |-> ""]
    [] outcome = "nodata" ->
         [status |-> "True", top_url |-> "absent", data |-> "absent", data_url |-> "absent"]
    [] OTHER ->
         [status |-> "False", top_url |-> "absent", data |-> "absent", data_url |-> "absent"]

\* dict.get("authorization_url"): None for a missing key
GetUrl(value) == IF value = "absent" THEN "None" ELSE value

\* PaystackService.initialize_payment from response_data on
initialize_payment(outcome) ==
  LET response_data == ResponseData(outcome)
      is_successful ==
        \/ response_data.status = "True"
        \/ response_data.top_url # "absent"
        \/ (response_data.data = "dict" /\ response_data.data_url # "absent")
      url == IF response_data.data = "dict" THEN GetUrl(response_data.data_url)
             ELSE GetUrl(response_data.top_url)
  IN
  IF outcome = "timeout" \/ ~is_successful
  THEN [raised |-> TRUE, authorization_url |-> "None"]
  ELSE [raised |-> FALSE, authorization_url |-> url]

\* result of paystack_init_charge: the result of initialize_payment, an
\* exception raised there being raised again
paystack_init_charge(outcome) == initialize_payment(outcome)

\* ---------------------------------------------------- initiate requests
ListInputs ==
  UNION {[1..n -> ItemIds \cup {MissingItemId}] : n \in 0..MaxIds}

ItemIdInputs ==
  {[kind |-> "list", ids |-> l] : l \in ListInputs}
    \cup {[kind |-> "null", ids |-> <<>>], [kind |-> "scalar", ids |-> <<>>]}

NoItemIds == [kind |-> "null", ids |-> <<>>]

IdList(l) == [kind |-> "list", ids |-> l]

\* every request body the initiate endpoint is exercised with: every id list
\* against session 1, the short ones against session 2, and one id list
\* against every combination of known and unknown payer, association, session
InitiateRequests ==
  [missing : {FALSE}, payer_id : PayerIds, association_id : AssociationIds,
   session_id : {1}, payment_item_ids : ItemIdInputs]
    \cup [missing : {FALSE}, payer_id : PayerIds, association_id : AssociationIds,
          session_id : {2},
          payment_item_ids : {x \in ItemIdInputs : Len(x.ids) <= 1}]
    \cup [missing : {FALSE}, payer_id : PayerIds \cup {BadId},
          association_id : AssociationIds \cup {BadId},
          session_id : SessionIds \cup {BadId},
          payment_item_ids : {IdList(<<1>>)}]
    \cup [missing : {TRUE}, payer_id : {BadId}, association_id : {BadId},
          session_id : {BadId}, payment_item_ids : {NoItemIds}]

\* the few requests that populate the table where the webhook is under study
FewInitiateRequests ==
  [missing : {FALSE}, payer_id : PayerIds, association_id : AssociationIds,
   session_id : {1}, payment_item_ids : {IdList(<<1>>), IdList(<<1, 2>>), IdList(<<3>>)}]

NoInitiate ==
  [missing |-> TRUE, payer_id |-> BadId, association_id |-> BadId,
   session_id |-> BadId, payment_item_ids |-> NoItemIds]

\* ----------------------------------------------------- webhook requests
SuccessEvents == {"charge.success", "transfer.success"}
EventTypes == SuccessEvents \cup {"charge.failed"}
AmountKinds == {"absent", "num", "null", "nonnumeric"}
ProviderAmount == 101500

\* the raw request body, by what json.loads makes of it
ObjectBodies ==
  [shape : {"object"}, event : EventTypes, data : {"dict"},
   reference : References \cup {NoRef}, amount : AmountKinds]
    \cup [shape : {"object"}, event : EventTypes, data : {"absent", "nondict"},
          reference : {NoRef}, amount : {"absent"}]

OtherBodies ==
  [shape : {"badutf8", "invalidjson", "nonobject"}, event : {"charge.failed"},
   data : {"absent"}, reference : {NoRef}, amount : {"absent"}]

Bodies == ObjectBodies \cup OtherBodies

SuccessBody(ref, amount) ==
  [shape |-> "object", event |-> "charge.success", data |-> "dict",
   reference |-> ref, amount |-> amount]

\* the x-paystack-signature header, by how its value was made
SigKinds ==
  {"good", "absent", "empty", "tampered", "wrongkey", "emptykey", "short", "nonascii"}

ProviderSecret == "whsec"

HookRequests ==
  [sig : {"good"}, body : Bodies]
    \cup [sig : SigKinds \ {"good"},
          body : {SuccessBody(r, "num") : r \in References}
                   \cup {[SuccessBody(NoRef, "absent") EXCEPT !.event = "charge.failed"]}]

FewHookRequests ==
  [sig : {"good"},
   body : {SuccessBody(r, a) : r \in References, a \in {"num", "null"}}]
    \cup [sig : {"tampered"}, body : {SuccessBody(1, "num")}]

NoHook == [sig |-> "absent", body |-> SuccessBody(NoRef, "absent")]

\* ------------------------------------------------------------------ state
VARIABLES
  secret,     \* settings.PAYSTACK_WEBHOOK_SECRET or settings.PAYSTACK_SECRET
  txns,       \* Transaction table: reference_id -> row
  wpc,        \* per webhook worker: "idle", or "loaded" between SELECT and UPDATE
  wreq,       \* per webhook worker: the request it is handling
  writes,     \* per reference: UPDATEs of is_verified performed so far
  last,       \* the request answered last, its response and what it did
  calc,       \* the helper called last on its own, its arguments and its result
  bank_cache, \* the cache entry "paystack_bank_list"
  early,      \* per reference: a success event was answered "no transaction"
  association \* the Session rows of the association and its current_session

vars ==
  <<secret, txns, wpc, wreq, writes, last, calc, bank_cache, early, association>>

NoCalc == [fn |-> "none"]

\* no Session row yet, current_session null (NoSession)
NoSession == 0

NoSessions == [sessions |-> <<>>, current_session |-> NoSession]

\* cache.get of a key never set, or expired: None
NoCache == [set |-> FALSE, banks |-> <<>>]

NoResponse ==
  [op |-> "none", status |-> 0, changed |-> FALSE, gateway |-> 0,
   outcome |-> "none", ireq |-> NoInitiate, ref |-> NoRef,
   wreq |-> NoHook, pre |-> "UNKNOWN", wrote |-> FALSE,
   again |-> FALSE, firstStatus |-> 0, firstWrote |-> FALSE,
   firstPre |-> "UNKNOWN",
   base_amount |-> 0, transaction_fee |-> 0, total_amount |-> 0,
   checkout_url |-> "None",
   exists |-> FALSE, is_verified |-> FALSE,
   amount_paid |-> [naira |-> 0, kobo |-> 0]]

Init ==
  /\ secret \in {"", ProviderSecret}
  /\ txns = <<>>
  /\ wpc = [w \in Workers |-> "idle"]
  /\ wreq = [w \in Workers |-> NoHook]
  /\ writes = [r \in References |-> 0]
  /\ last = NoResponse
  /\ calc = NoCalc
  /\ bank_cache = NoCache
  /\ early = [r \in References |-> FALSE]
  /\ association = NoSessions

\* PENDING / VERIFIED / UNKNOWN: the state of the row a reference names
StateOf(db, ref) ==
  IF ref \notin DOMAIN db THEN "UNKNOWN"
  ELSE IF db[ref].is_verified THEN "VERIFIED" ELSE "PENDING"

\* ---------------------------------------------------- InitiatePaymentView
\* items_qs = PaymentItem.objects.filter(id__in=item_ids, session=session)
ItemsQsAnySession(item_ids, session) ==
  {i \in ItemIds : i \in Range(item_ids)}

ItemsQs(item_ids, session) ==
  {i \in ItemIds : i \in Range(item_ids) /\ ItemSession[i] = session}

\* Transaction.objects.create(..., amount_paid=base_amount, is_verified=False)
NewTransactionVerified(payer, session, base_amount, items_qs) ==
  [amount_paid |-> base_amount, is_verified |-> TRUE, payer |-> payer,
   session |-> session, payment_items |-> items_qs]

NewTransactionWithFees(payer, session, base_amount, items_qs) ==
  [amount_paid |-> calculate_paystack_charges(Thousandths(base_amount)).total_amount,
   is_verified |-> FALSE, payer |-> payer,
   session |-> session, payment_items |-> items_qs]

NewTransaction(payer, session, base_amount, items_qs) ==
  [amount_paid |-> base_amount, is_verified |-> FALSE, payer |-> payer,
   session |-> session, payment_items |-> items_qs]

\* the except branch around paystack_init_charge answers 502 and leaves the
\* row created before the call in place
RollBackOnError(db, created) == db

KeepOnError(db, created) == created

\* if not checkout_url
MissingUrlIsNone(checkout_url) == checkout_url = "None"

MissingUrl(checkout_url) == checkout_url \in {"None", ""}

\* len(set(item_ids))
ListLength(item_ids) == Len(item_ids)

DistinctCount(item_ids) == Cardinality(Range(item_ids))

\* the response of InitiatePaymentView.post and the table it leaves
InitiatePost(req, outcome, db, ref) ==
  LET answer(code, table, sent, reference, breakdown, url) ==
        [status |-> code, db |-> table, gateway |-> sent, ref |-> reference,
         base_amount |-> breakdown[1], transaction_fee |-> breakdown[2],
         total_amount |-> breakdown[3], checkout_url |-> url]
      fail400 == answer(400, db, 0, NoRef, <<0, 0, 0>>, "None")
      item_ids == IF req.payment_item_ids.kind = "list"
                  THEN req.payment_item_ids.ids ELSE <<>>
      items_qs == ItemsQs(item_ids, req.session_id)
      base_amount == SumAmounts(items_qs)
      charge_breakdown == calculate_paystack_charges(Thousandths(base_amount))
      total_with_fees == charge_breakdown.total_amount
      transaction_fee == charge_breakdown.transaction_fee
      txn == NewTransaction(req.payer_id, req.session_id, base_amount, items_qs)
      created == (ref :> txn) @@ db
      paystack_res == paystack_init_charge(outcome)
      checkout_url == paystack_res.authorization_url
  IN
  IF req.missing THEN fail400
  ELSE IF \/ req.payer_id \notin PayerIds
          \/ req.association_id \notin AssociationIds
          \/ req.session_id \notin SessionIds
       THEN fail400
  ELSE IF req.payment_item_ids.kind = "scalar" \/ item_ids = <<>> THEN fail400
  ELSE IF Cardinality(items_qs) # DistinctCount(item_ids) THEN fail400
  ELSE IF paystack_res.raised
       THEN answer(502, KeepOnError(db, created), total_with_fees, ref,
                   <<0, 0, 0>>, "None")
  ELSE IF MissingUrl(checkout_url)
       THEN answer(502, created, total_with_fees, ref, <<0, 0, 0>>, "None")
  ELSE answer(201, created, total_with_fees, ref,
              <<base_amount, transaction_fee, total_with_fees>>, checkout_url)

\* a request that fails validation needs neither a reference nor the gateway
InitiatePaymentOf(reqs) ==
  \E req \in reqs :
    \E rejected \in {InitiatePost(req, "ok", txns, 1)} :
      \E outcome \in IF rejected.ref = NoRef THEN {"ok"} ELSE GatewayOutcomes :
        \E ref \in IF rejected.ref = NoRef THEN {1} ELSE References \ DOMAIN txns :
          \E r \in {InitiatePost(req, outcome, txns, ref)} :
            /\ txns' = r.db
            /\ last' = [NoResponse EXCEPT !.op = "initiate", !.status = r.status,
                          !.changed = (r.db # txns), !.gateway = r.gateway,
                          !.outcome = IF r.ref = NoRef THEN "none" ELSE outcome,
                          !.ireq = req, !.ref = r.ref,
                          !.base_amount = r.base_amount,
                          !.transaction_fee = r.transaction_fee,
                          !.total_amount = r.total_amount,
                          !.checkout_url = r.checkout_url]
            /\ UNCHANGED <<secret, wpc, wreq, writes, calc, bank_cache, early, association>>

InitiatePayment == InitiatePaymentOf(InitiateRequests)

InitiateFew == InitiatePaymentOf(FewInitiateRequests)

\* str(Decimal) of a DecimalField of two decimal places: the naira, a point
\* and two digits of kobo
StrDecimal(kobo) == [naira |-> kobo \div 100, kobo |-> kobo % 100]

\* -------------------------------------------- the amount sent to Paystack
\* float(amount): the double nearest to the decimal, which is that decimal
\* only when it is a multiple of 0.25; err is the sign of the difference,
\* taken either way where there is one
FloatErrors(kobo) == IF kobo % 25 = 0 THEN {0} ELSE {0 - 1, 1}

ToFloat(amount, err) == [nearest |-> amount, err |-> err]

\* str(float): the shortest decimal that reads back as the same double, which
\* for a double nearest to a decimal of at most 15 significant digits is that
\* decimal with its trailing zeros dropped down to one fraction digit
FloatStr(f) ==
  IF f.nearest.kobo % 10 = 0
  THEN [naira |-> f.nearest.naira, frac |-> f.nearest.kobo \div 10, places |-> 1]
  ELSE [naira |-> f.nearest.naira, frac |-> f.nearest.kobo, places |-> 2]

\* int(Decimal(str(amount)).quantize(Decimal("0.01")) * 100)
_amount_to_kobo(amount) ==
  LET thousandths ==
        amount.naira * 1000 + amount.frac * (IF amount.places = 1 THEN 100 ELSE 10)
  IN QuantizeHalfEven(thousandths, 10)

\* amount_kobo = _amount_to_kobo(str(amount_naira))
AmountKoboTruncated(amount_naira) ==
  LET kobo == amount_naira.nearest.naira * 100 + amount_naira.nearest.kobo
  IN IF amount_naira.err < 0 THEN kobo - 1 ELSE kobo

AmountKobo(amount_naira) == _amount_to_kobo(FloatStr(amount_naira))

\* paystack_init_charge(amount=str(total_with_fees)) down to payment_params
SentToProvider(total_with_fees, err) ==
  AmountKobo(ToFloat(StrDecimal(total_with_fees), err))

\* --------------------------------------------- calculate_paystack_charges
ComputeCharges ==
  \E amount \in FeeInputs :
    /\ calc' = [fn |-> "charges", amount |-> amount,
                out |-> calculate_paystack_charges(amount)]
    /\ UNCHANGED <<secret, txns, wpc, wreq, writes, last, bank_cache, early, association>>

\* the calculator called on two amounts of two decimals, the first not the
\* greater
CompareCharges ==
  \E a \in {x \in FeeInputs : x % 10 = 0} :
    \E b \in {x \in FeeInputs : x % 10 = 0 /\ a <= x} :
      /\ calc' = [fn |-> "compare", a |-> a, b |-> b,
                  out_a |-> calculate_paystack_charges(a),
                  out_b |-> calculate_paystack_charges(b)]
      /\ UNCHANGED <<secret, txns, wpc, wreq, writes, last, bank_cache, early, association>>

\* the total of a two-decimal amount on its way to the provider
InitCharge ==
  \E amount \in {a \in FeeInputs : a % 10 = 0} :
    \E total \in {calculate_paystack_charges(amount).total_amount} :
      \E err \in FloatErrors(total) :
        /\ calc' = [fn |-> "init_charge", amount |-> StrDecimal(total),
                    err |-> err, out |-> SentToProvider(total, err)]
        /\ UNCHANGED <<secret, txns, wpc, wreq, writes, last, bank_cache, early, association>>

\* ------------------------------------------------------ PaymentStatusView
\* the payload of PaymentStatusView.get
PaymentStatusGetUnverified(db, reference_id) ==
  IF reference_id \notin DOMAIN db
  THEN [exists |-> FALSE, is_verified |-> FALSE, amount_paid |-> StrDecimal(0)]
  ELSE [exists |-> TRUE, is_verified |-> FALSE,
        amount_paid |-> StrDecimal(db[reference_id].amount_paid)]

PaymentStatusGet(db, reference_id) ==
  IF reference_id \notin DOMAIN db
  THEN [exists |-> FALSE, is_verified |-> FALSE, amount_paid |-> StrDecimal(0)]
  ELSE [exists |-> TRUE, is_verified |-> db[reference_id].is_verified,
        amount_paid |-> StrDecimal(db[reference_id].amount_paid)]

GetStatus ==
  \E reference_id \in References :
    \E payload \in {PaymentStatusGet(txns, reference_id)} :
      /\ last' = [NoResponse EXCEPT !.op = "status", !.status = 200,
                    !.ref = reference_id, !.pre = StateOf(txns, reference_id),
                    !.exists = payload.exists,
                    !.is_verified = payload.is_verified,
                    !.amount_paid = payload.amount_paid]
      /\ UNCHANGED <<secret, txns, wpc, wreq, writes, calc, bank_cache, early, association>>

\* ---------------------------------------------------- signature verifier
NoBody ==
  [shape |-> "none", event |-> "charge.failed", data |-> "absent",
   reference |-> NoRef, amount |-> "absent"]

\* the body the provider signed, where the body received was altered on the way
OriginalBody(body) ==
  IF body = SuccessBody(NoRef, "absent") THEN SuccessBody(NoRef, "num")
  ELSE SuccessBody(NoRef, "absent")

\* hmac.new(secret, raw, sha512).hexdigest(): one digest per key and message
compute_paystack_signature(raw, key) == [kind |-> "hex", key |-> key, body |-> raw]

\* request.headers.get("x-paystack-signature")
HeaderSignature(req) ==
  CASE req.sig = "good" -> compute_paystack_signature(req.body, ProviderSecret)
    [] req.sig = "tampered" ->
         compute_paystack_signature(OriginalBody(req.body), ProviderSecret)
    [] req.sig = "wrongkey" -> compute_paystack_signature(req.body, "guess")
    [] req.sig = "emptykey" -> compute_paystack_signature(req.body, "")
    [] req.sig = "absent" -> [kind |-> "none", key |-> "", body |-> NoBody]
    [] req.sig = "empty" -> [kind |-> "empty", key |-> "", body |-> NoBody]
    [] req.sig = "short" -> [kind |-> "hexprefix", key |-> ProviderSecret, body |-> req.body]
    [] OTHER -> [kind |-> "nonascii", key |-> "", body |-> NoBody]

\* hmac.compare_digest on two str: TypeError unless both are ASCII
compare_digest(a, b) ==
  IF b.kind = "nonascii" THEN "TypeError"
  ELSE IF a = b THEN "True" ELSE "False"

is_valid_paystack_signature_unchecked(raw_body, header_signature, key) ==
  IF key = "" \/ header_signature.kind \in {"none", "empty"} THEN "False"
  ELSE "True"

is_valid_paystack_signature(raw_body, header_signature, key) ==
  IF key = "" \/ header_signature.kind \in {"none", "empty"} THEN "False"
  ELSE compare_digest(compute_paystack_signature(raw_body, key), header_signature)

\* ------------------------------------------------------ TransactionViewSet
\* a ModelViewSet: besides list and retrieve it answers create, update,
\* partial_update and destroy for an authenticated user

\* request.user.association.current_session: a session, or None (BadId)
CurrentSessions == SessionIds \cup {BadId}

\* get_queryset without query parameters: the transactions of that session
GetQueryset(db, current_session) ==
  {r \in DOMAIN db : db[r].session = current_session}

\* what a create or update request carries once TransactionSerializer has
\* validated it: the items paid for and their price
ValidatedData ==
  {[amount_paid |-> ItemAmount[i], payment_items |-> {i}] : i \in ItemIds}

\* perform_create: serializer.save(payer=..., association=..., session=...)
perform_create(db, ref, current_session, data) ==
  IF current_session = BadId THEN [status |-> 400, db |-> db]
  ELSE [status |-> 201,
        db |-> (ref :> [amount_paid |-> data.amount_paid, is_verified |-> FALSE,
                        payer |-> 1, session |-> current_session,
                        payment_items |-> data.payment_items]) @@ db]

\* UpdateModelMixin.update: get_object() out of get_queryset, then
\* serializer.save() on that row
perform_update(db, ref, current_session, data) ==
  IF ref \notin GetQueryset(db, current_session) THEN [status |-> 404, db |-> db]
  ELSE [status |-> 200,
        db |-> [db EXCEPT ![ref].amount_paid = data.amount_paid,
                          ![ref].payment_items = data.payment_items]]

\* DestroyModelMixin.destroy: get_object() out of get_queryset, then
\* instance.delete()
perform_destroy(db, ref, current_session) ==
  IF ref \notin GetQueryset(db, current_session) THEN [status |-> 404, db |-> db]
  ELSE [status |-> 204, db |-> [r \in DOMAIN db \ {ref} |-> db[r]]]

ViewSetResponse(name, r, ref) ==
  [NoResponse EXCEPT !.op = name, !.status = r.status, !.changed = (r.db # txns),
                     !.ref = ref, !.pre = StateOf(txns, ref)]

ViewSetCreate ==
  \E current_session \in CurrentSessions, data \in ValidatedData,
     ref \in References \ DOMAIN txns :
    \E r \in {perform_create(txns, ref, current_session, data)} :
      /\ txns' = r.db
      /\ last' = ViewSetResponse("viewset.create", r, ref)
      /\ UNCHANGED <<secret, wpc, wreq, writes, calc, bank_cache, early, association>>

ViewSetUpdate ==
  \E current_session \in CurrentSessions, data \in ValidatedData,
     ref \in References :
    \E r \in {perform_update(txns, ref, current_session, data)} :
      /\ txns' = r.db
      /\ last' = ViewSetResponse("viewset.update", r, ref)
      /\ UNCHANGED <<secret, wpc, wreq, writes, calc, bank_cache, early, association>>

\* a reference is handed out again once its row is gone, as a row never
\* written to
ViewSetDestroy ==
  \E current_session \in CurrentSessions, ref \in References :
    \E r \in {perform_destroy(txns, ref, current_session)} :
      /\ txns' = r.db
      /\ writes' = IF r.status = 204 THEN [writes EXCEPT ![ref] = 0] ELSE writes
      /\ last' = ViewSetResponse("viewset.destroy", r, ref)
      /\ UNCHANGED <<secret, wpc, wreq, calc, bank_cache, early, association>>

\* ---------------------------------------------------------------- Session
SessionPks == 1..MaxSessions

\* Session.objects.filter(association=..., is_active=True)
\*   .exclude(pk=...).update(is_active=False)
KeepOthers(rows, pk) == rows

DeactivateOthers(rows, pk) ==
  [p \in DOMAIN rows |-> IF p = pk THEN rows[p] ELSE [is_active |-> FALSE]]

\* the row written by super().save()
WriteRow(rows, pk, is_active) ==
  [p \in DOMAIN rows \cup {pk} |->
     IF p = pk THEN [is_active |-> is_active] ELSE rows[p]]

\* Session.save
SessionSaveRows(rows, pk, is_active) ==
  WriteRow(IF is_active THEN DeactivateOthers(rows, pk) ELSE rows, pk, is_active)

\* SessionViewSet.perform_create for a user with an association; saved: whether
\* serializer.save got the row in (it raises on a title the association has)
perform_create_session(a, pk, saved) ==
  LET none_active == DeactivateOthers(a.sessions, NoSession)
  IN IF saved
     THEN [sessions |-> SessionSaveRows(none_active, pk, TRUE), current_session |-> pk]
     ELSE [sessions |-> none_active, current_session |-> a.current_session]

\* SessionViewSet.set_current
set_current(a, pk) ==
  IF pk \notin DOMAIN a.sessions THEN a
  ELSE [sessions |-> SessionSaveRows(DeactivateOthers(a.sessions, pk), pk, TRUE),
        current_session |-> pk]

SessionCreate ==
  \E pk \in SessionPks \ DOMAIN association.sessions, saved \in BOOLEAN :
    /\ association' = perform_create_session(association, pk, saved)
    /\ calc' = [fn |-> "perform_create", session |-> pk, completed |-> saved]
    /\ UNCHANGED <<secret, txns, wpc, wreq, writes, last, bank_cache, early>>

SetCurrent ==
  \E pk \in SessionPks :
    /\ association' = set_current(association, pk)
    /\ calc' = [fn |-> "set_current", session |-> pk,
                completed |-> (pk \in DOMAIN association.sessions)]
    /\ UNCHANGED <<secret, txns, wpc, wreq, writes, last, bank_cache, early>>

\* any other save of a Session, new or not, either way round
SessionSave ==
  \E pk \in SessionPks, is_active \in BOOLEAN :
    /\ association' =
         [association EXCEPT !.sessions = SessionSaveRows(@, pk, is_active)]
    /\ calc' = [fn |-> "save", session |-> pk, completed |-> TRUE]
    /\ UNCHANGED <<secret, txns, wpc, wreq, writes, last, bank_cache, early>>

\* ------------------------------------------------------ VerifyBankService
fallback_banks ==
  << [name |-> "Access Bank", code |-> "044"],
     [name |-> "Zenith Bank", code |-> "057"],
     [name |-> "GTBank", code |-> "058"],
     [name |-> "First Bank of Nigeria", code |-> "011"],
     [name |-> "United Bank for Africa", code |-> "033"],
     [name |-> "Fidelity Bank", code |-> "070"],
     [name |-> "FCMB", code |-> "214"],
     [name |-> "Stanbic IBTC Bank", code |-> "221"],
     [name |-> "Sterling Bank", code |-> "232"],
     [name |-> "Unity Bank", code |-> "215"],
     [name |-> "Wema Bank", code |-> "035"],
     [name |-> "Union Bank", code |-> "032"],
     [name |-> "Polaris Bank", code |-> "076"],
     [name |-> "Ecobank Nigeria", code |-> "050"] >>

\* the entries of the provider's "data" list: an active bank, an inactive
\* one, one with no name, and an entry that is not an object
BankItems ==
  {[dict |-> TRUE, name |-> "Kuda Bank", code |-> "50211", active |-> TRUE],
   [dict |-> TRUE, name |-> "Heritage Bank", code |-> "030", active |-> FALSE],
   [dict |-> TRUE, name |-> "", code |-> "001", active |-> TRUE],
   [dict |-> FALSE, name |-> "", code |-> "", active |-> FALSE]}

BankLists == UNION {[1..n -> BankItems] : n \in 0..MaxBanks}

\* what requests.get comes to: an exception, or a response with its HTTP
\* status, its content type, its body and, for a JSON object, the "status"
\* and "data" members of it
\* the "data" member: null, the list of banks, or the object /bank/resolve
\* answers with and the account_name in it ("" for none)
NoData == [kind |-> "null", items |-> <<>>, account_name |-> ""]

ListData(l) == [kind |-> "list", items |-> l, account_name |-> ""]

AccountDict(name) == [kind |-> "dict", items |-> <<>>, account_name |-> name]

NoAnswer ==
  [raised |-> TRUE, ok |-> FALSE, content |-> "html", body |-> "unparsable",
   status |-> "absent", data |-> NoData]

Answer(ok, content, body, status, data) ==
  [raised |-> FALSE, ok |-> ok, content |-> content, body |-> body,
   status |-> status, data |-> data]

\* the answers that are failures of the provider call, data being immaterial
FailedAnswers(data) ==
  {NoAnswer,
   Answer(FALSE, "json", "dict", "False", data),
   Answer(FALSE, "json", "dict", "True", data),
   Answer(FALSE, "json", "list", "absent", data),
   Answer(FALSE, "html", "unparsable", "absent", data),
   Answer(TRUE, "json", "dict", "False", data),
   Answer(TRUE, "json", "dict", "absent", data),
   Answer(TRUE, "html", "unparsable", "absent", data),
   Answer(TRUE, "json", "unparsable", "absent", data),
   Answer(TRUE, "json", "list", "absent", data)}

BankAnswers ==
  FailedAnswers(NoData)
    \cup {Answer(TRUE, "json", "dict", "True", NoData)}
    \cup {Answer(TRUE, "json", "dict", "True", ListData(l)) : l \in BankLists}

\* data = resp.json() if the content type is JSON else {}, then the test
\* "not resp.ok or not data.get('status')": the exception raised on the way,
\* or whether the test sends the call down its error branch
ErrorBranch(resp) ==
  IF resp.raised THEN [exc |-> "RequestException", error |-> TRUE]
  ELSE IF resp.content = "json" /\ resp.body = "unparsable"
       THEN [exc |-> "ValueError", error |-> TRUE]
  ELSE IF ~resp.ok THEN [exc |-> "none", error |-> TRUE]
  ELSE IF resp.content = "json" /\ resp.body = "list"
       THEN [exc |-> "AttributeError", error |-> TRUE]
  ELSE IF resp.content # "json" \/ resp.status # "True"
       THEN [exc |-> "none", error |-> TRUE]
  ELSE [exc |-> "none", error |-> FALSE]

\* except Exception: whatever the try block raised, the handler's value
ExceptRequestException(attempt, handler) ==
  IF attempt.exc = "RequestException" THEN handler ELSE attempt

ExceptException(attempt, handler) ==
  IF attempt.exc # "none" THEN handler ELSE attempt

\* the {name, code} of the entries with a name, a code and active set
ActiveBanks(banks_raw) ==
  LET keep(b) == b.name # "" /\ b.code # "" /\ b.active
      strip(b) == [name |-> b.name, code |-> b.code]
      kept == SelectSeq(banks_raw, keep)
  IN [i \in 1..Len(kept) |-> strip(kept[i])]

\* get_bank_list: the list returned, the cache entry left, and the
\* exception that escapes, if any
get_bank_list(cached_banks, resp) ==
  LET gave(exc, out, entry, called) ==
        [exc |-> exc, out |-> out, cache |-> entry, called |-> called]
      branch == ErrorBranch(resp)
      banks_raw == IF resp.data.kind = "null" THEN <<>> ELSE resp.data.items
      banks == ActiveBanks(banks_raw)
      attempt ==
        IF branch.exc # "none" THEN gave(branch.exc, <<>>, cached_banks, TRUE)
        ELSE IF branch.error THEN gave("RuntimeError", <<>>, cached_banks, TRUE)
        ELSE IF \E i \in 1..Len(banks_raw) : ~banks_raw[i].dict
             THEN gave("AttributeError", <<>>, cached_banks, TRUE)
        ELSE gave("none", banks, [set |-> TRUE, banks |-> banks], TRUE)
  IN
  IF cached_banks.set /\ cached_banks.banks # <<>>
  THEN gave("none", cached_banks.banks, cached_banks, FALSE)
  ELSE ExceptException(attempt, gave("none", fallback_banks, cached_banks, TRUE))

AccountData == {NoData, AccountDict(""), AccountDict("ADA OBI")}

AccountAnswers ==
  FailedAnswers(NoData)
    \cup {Answer(TRUE, "json", "dict", "True", a) : a \in AccountData}

AccountNumbers == {"0123456789"}
BankCodes == {"044", "058"}

NoAccount ==
  [found |-> FALSE, account_name |-> "", account_number |-> "", bank_code |-> ""]

\* verify_account: the dict returned (found) or None, and the exception that
\* escapes, if any
verify_account(account_number, bank_code, resp) ==
  LET gave(exc, out) == [exc |-> exc, out |-> out]
      branch == ErrorBranch(resp)
      attempt ==
        IF branch.exc # "none" THEN gave(branch.exc, NoAccount)
        ELSE IF branch.error
             THEN IF resp.content = "json" /\ resp.body = "list"
                  THEN gave("AttributeError", NoAccount)
                  ELSE gave("none", NoAccount)
        ELSE IF resp.data.account_name = "" THEN gave("none", NoAccount)
        ELSE gave("none", [found |-> TRUE, account_name |-> resp.data.account_name,
                           account_number |-> account_number,
                           bank_code |-> bank_code])
  IN ExceptException(attempt, gave("none", NoAccount))

GetBankList ==
  \E resp \in BankAnswers :
    \E r \in {get_bank_list(bank_cache, resp)} :
      /\ bank_cache' = r.cache
      /\ calc' = [fn |-> "get_bank_list", resp |-> resp, cached |-> bank_cache,
                  exc |-> r.exc, out |-> r.out, called |-> r.called]
      /\ UNCHANGED <<secret, txns, wpc, wreq, writes, last, early, association>>

VerifyAccount ==
  \E account_number \in AccountNumbers, bank_code \in BankCodes,
     resp \in AccountAnswers :
    \E r \in {verify_account(account_number, bank_code, resp)} :
      /\ calc' = [fn |-> "verify_account", resp |-> resp,
                  account_number |-> account_number, bank_code |-> bank_code,
                  exc |-> r.exc, out |-> r.out]
      /\ UNCHANGED <<secret, txns, wpc, wreq, writes, last, bank_cache, early, association>>

\* the entry is dropped BANK_LIST_CACHE_TIMEOUT after it was set
CacheExpire ==
  /\ bank_cache.set
  /\ bank_cache' = NoCache
  /\ UNCHANGED <<secret, txns, wpc, wreq, writes, last, calc, early, association>>

\* the verifier called on its own with the header and the body of a request
VerifySignature ==
  \E req \in HookRequests :
    /\ calc' = [fn |-> "verify", req |-> req,
                out |-> is_valid_paystack_signature(req.body, HeaderSignature(req),
                                                    secret)]
    /\ UNCHANGED <<secret, txns, wpc, wreq, writes, last, bank_cache, early, association>>

\* --------------------------------------------------------- paystack_webhook
\* txn.is_verified = True; txn.save(update_fields=["is_verified"])
SaveVerifiedAndAmount(db, ref) ==
  [db EXCEPT ![ref].is_verified = TRUE, ![ref].amount_paid = ProviderAmount]

SaveVerified(db, ref) == [db EXCEPT ![ref].is_verified = TRUE]

\* paystack_webhook up to the statement before the UPDATE: the status it
\* answers with, or status 0 and the reference of the row it goes on to save
WebhookFetch(req, db, key) ==
  LET body == req.body
      valid == is_valid_paystack_signature(body, HeaderSignature(req), key)
      reference == IF body.data = "dict" THEN body.reference ELSE NoRef
      answer(code) == [status |-> code, ref |-> NoRef, missed |-> NoRef]
  IN
  IF valid = "TypeError" THEN answer(500)
  ELSE IF valid = "False" THEN answer(403)
  ELSE IF body.shape = "badutf8" THEN answer(500)
  ELSE IF body.shape = "invalidjson" THEN answer(200)
  ELSE IF body.shape = "nonobject" THEN answer(500)
  ELSE IF body.data = "nondict" THEN answer(500)
  ELSE IF body.event \notin {"charge.success", "transfer.success"} THEN answer(200)
  ELSE IF reference = NoRef THEN answer(200)
  ELSE IF reference \notin DOMAIN db
       THEN [status |-> 200, ref |-> NoRef, missed |-> reference]
  ELSE IF db[reference].is_verified THEN answer(200)
  ELSE IF body.amount \in {"null", "nonnumeric"} THEN answer(500)
  ELSE [status |-> 0, ref |-> reference, missed |-> NoRef]

\* Transaction.DoesNotExist was answered 200 for the reference of the event
NoteMissed(f) ==
  IF f.missed = NoRef THEN early ELSE [early EXCEPT ![f.missed] = TRUE]

HookResponse(req, code, db, db2, didWrite, before) ==
  [NoResponse EXCEPT !.op = "webhook", !.status = code, !.changed = (db2 # db),
     !.wreq = req, !.pre = before, !.wrote = didWrite,
     !.again = (last.op = "webhook" /\ last.wreq = req),
     !.firstStatus = IF last.op = "webhook" /\ last.wreq = req THEN last.status ELSE 0,
     !.firstWrote = (last.op = "webhook" /\ last.wreq = req /\ last.wrote),
     !.firstPre = IF last.op = "webhook" /\ last.wreq = req THEN last.pre ELSE "UNKNOWN"]

\* one request handled from beginning to end with no other request in between
HandleWebhook(req, f) ==
  \E db2 \in {IF f.status = 0 THEN SaveVerified(txns, f.ref) ELSE txns} :
    /\ \A w \in Workers : wpc[w] = "idle"
    /\ txns' = db2
    /\ writes' = IF f.status = 0 THEN [writes EXCEPT ![f.ref] = @ + 1] ELSE writes
    /\ last' = HookResponse(req, IF f.status = 0 THEN 200 ELSE f.status, txns, db2,
                            f.status = 0, StateOf(txns, req.body.reference))
    /\ UNCHANGED <<secret, wpc, wreq, calc, bank_cache, association>>

PaystackWebhookOf(reqs) ==
  \E req \in reqs :
    \E f \in {WebhookFetch(req, txns, secret)} :
      HandleWebhook(req, f) /\ UNCHANGED early

\* success events for every reference and every kind of amount, correctly
\* signed or not, with a note taken of each one answered "no transaction"
EarlyHookRequests ==
  [sig : {"good", "tampered"},
   body : {b \in ObjectBodies : /\ b.event \in SuccessEvents /\ b.data = "dict"
                                /\ b.reference \in References}]

WebhookObserved ==
  \E req \in EarlyHookRequests :
    \E f \in {WebhookFetch(req, txns, secret)} :
      HandleWebhook(req, f) /\ early' = NoteMissed(f)

PaystackWebhook == PaystackWebhookOf(HookRequests)

WebhookFew == PaystackWebhookOf(FewHookRequests)

\* the same view run by concurrent workers: the SELECT and the UPDATE are
\* separate statements, and no lock or transaction spans them
WebhookBegin(w) ==
  \E req \in FewHookRequests :
    \E f \in {WebhookFetch(req, txns, secret)} :
    /\ wpc[w] = "idle"
    /\ IF f.status = 0
       THEN /\ wpc' = [wpc EXCEPT ![w] = "loaded"]
            /\ wreq' = [wreq EXCEPT ![w] = req]
            /\ UNCHANGED last
       ELSE /\ last' = HookResponse(req, f.status, txns, txns, FALSE,
                                    StateOf(txns, req.body.reference))
            /\ UNCHANGED <<wpc, wreq>>
    /\ UNCHANGED <<secret, txns, writes, calc, bank_cache, early, association>>

WebhookEnd(w) ==
  LET req == wreq[w]
      db2 == SaveVerified(txns, req.body.reference)
  IN
  /\ wpc[w] = "loaded"
  /\ txns' = db2
  /\ writes' = [writes EXCEPT ![req.body.reference] = @ + 1]
  /\ wpc' = [wpc EXCEPT ![w] = "idle"]
  /\ wreq' = [wreq EXCEPT ![w] = NoHook]
  /\ last' = HookResponse(req, 200, txns, db2, TRUE, "PENDING")
  /\ UNCHANGED <<secret, calc, bank_cache, early, association>>

\* ---------------------------------------------------------- specifications
\* requests handled by concurrent workers
Next ==
  \/ InitiateFew
  \/ GetStatus
  \/ \E w \in Workers : WebhookBegin(w)
  \/ \E w \in Workers : WebhookEnd(w)

Spec == Init /\ [][Next]_vars

\* requests handled one at a time, the webhook on every kind of request
NextWebhook == InitiateFew \/ PaystackWebhook \/ GetStatus

SpecWebhook == Init /\ [][NextWebhook]_vars

\* requests handled one at a time, initiate-payment on every kind of request
NextInitiate == InitiatePayment \/ GetStatus

SpecInitiate == Init /\ [][NextInitiate]_vars

\* the fee calculator called on its own
NextFee == ComputeCharges \/ InitCharge \/ CompareCharges

SpecFee == Init /\ [][NextFee]_vars

\* the signature verifier called on its own
NextSignature == VerifySignature

SpecSignature == Init /\ [][NextSignature]_vars

\* every operation of the transaction views that can write, one at a time
NextViewSet ==
  \/ InitiateFew
  \/ WebhookFew
  \/ ViewSetCreate
  \/ ViewSetUpdate
  \/ ViewSetDestroy

SpecViewSet == Init /\ [][NextViewSet]_vars

\* the bank services called on their own
NextBank == GetBankList \/ VerifyAccount \/ CacheExpire

SpecBank == Init /\ [][NextBank]_vars

\* requests handled one at a time, the webhook on success events that may
\* come before the transaction they name
NextEarly == InitiateFew \/ WebhookObserved

SpecEarly == Init /\ [][NextEarly]_vars

\* the sessions of the association, one operation at a time
NextSession == SessionCreate \/ SetCurrent \/ SessionSave

SpecSession == Init /\ [][NextSession]_vars

\* ------------------------------------------------------------------ claims
SignatureValid(req) == req.sig = "good" /\ secret = ProviderSecret

\* C1: a transaction is created with the verification flag false, a flag
\* that is true stays true whatever request is handled next, and no row is
\* removed: PENDING -> VERIFIED is the only transition.
C1_FlagFalseThenTrueForGood ==
  [][/\ \A r \in DOMAIN txns :
          r \in DOMAIN txns' /\ (txns[r].is_verified => txns'[r].is_verified)
     /\ \A r \in DOMAIN txns' \ DOMAIN txns : ~txns'[r].is_verified]_vars

C1_Witness ==
  /\ last.op = "webhook" /\ last.status = 200 /\ last.pre = "VERIFIED"
  /\ \E r \in DOMAIN txns : txns[r].is_verified /\ writes[r] >= 1

\* C2: when a signature-valid success event for a PENDING reference is
\* consumed twice in a row, the first consumption writes the flag, the second
\* writes nothing and changes nothing, and both are answered 200.
C2_ReplayWritesOnce ==
  (/\ last.op = "webhook" /\ last.again /\ SignatureValid(last.wreq)
   /\ last.wreq.body.shape = "object" /\ last.wreq.body.data = "dict"
   /\ last.wreq.body.event \in SuccessEvents
   /\ last.firstPre = "PENDING")
    => (/\ last.firstWrote /\ last.firstStatus = 200
        /\ ~last.wrote /\ ~last.changed /\ last.status = 200)

\* C3: concurrent deliveries for one reference never both perform the
\* is_verified write: at most one UPDATE is made per reference.
C3_OneWritePerReference == \A r \in References : writes[r] <= 1

\* C4: a webhook request without a valid signature is answered 403 and
\* changes no transaction.
C4_BadSignatureForbidden ==
  (last.op = "webhook" /\ ~SignatureValid(last.wreq))
    => (last.status = 403 /\ ~last.changed)

\* C5: every webhook request with a valid signature is answered 200.
C5_ValidSignatureAlwaysAcknowledged ==
  (last.op = "webhook" /\ SignatureValid(last.wreq)) => last.status = 200

\* C6: a signature-valid webhook whose event is not a success event, or whose
\* data carries no reference, or whose reference names no transaction, is
\* answered 200 and changes no transaction.
C6_UnrecognisedIsNoOp ==
  (/\ last.op = "webhook" /\ SignatureValid(last.wreq)
   /\ last.wreq.body.shape = "object"
   /\ \/ last.wreq.body.event \notin SuccessEvents
      \/ last.wreq.body.data # "dict"
      \/ last.wreq.body.reference = NoRef
      \/ last.pre = "UNKNOWN")
    => (last.status = 200 /\ ~last.changed)

\* C7: no request changes the stored amount of an existing transaction; it
\* stays the sum of the prices of the items the transaction was created for.
C7_AmountNeverChanges ==
  [][\A r \in DOMAIN txns :
       /\ r \in DOMAIN txns'
       /\ txns'[r].amount_paid = txns[r].amount_paid
       /\ txns'[r].amount_paid = SumAmounts(txns'[r].payment_items)]_vars

C7_Witness ==
  /\ last.op = "webhook" /\ last.wrote /\ last.wreq.body.amount = "num"
  /\ txns[last.wreq.body.reference].is_verified
  /\ txns[last.wreq.body.reference].amount_paid # ProviderAmount

\* C8: after an initiate_payment whose gateway call failed, the answer is 502
\* and the transaction created before the call exists and is PENDING.
C8_GatewayFailureKeepsPending ==
  (last.op = "initiate" /\ last.outcome \in {"declined", "timeout", "nourl"})
    => (/\ last.status = 502 /\ last.changed
        /\ StateOf(txns, last.ref) = "PENDING")

C8_Witness ==
  /\ last.op = "initiate" /\ last.outcome = "declined" /\ last.status = 502
  /\ StateOf(txns, last.ref) = "PENDING"

\* C9 as stated: an initiate_payment whose outbound call got no response
\* leaves the set of persisted transactions as it was.
C9_NoPartialState ==
  (last.op = "initiate" /\ last.outcome = "timeout") => ~last.changed

\* C9 as amended: an initiate_payment whose outbound call got no response
\* leaves exactly one more transaction than before, the PENDING one it
\* created before the call, and every earlier transaction as it was.
C9_OnlyThePendingRowCommitted ==
  [][(last'.op = "initiate" /\ last'.outcome = "timeout")
       => (/\ last'.ref \notin DOMAIN txns
           /\ DOMAIN txns' = DOMAIN txns \cup {last'.ref}
           /\ \A r \in DOMAIN txns : txns'[r] = txns[r]
           /\ ~txns'[last'.ref].is_verified
           /\ last'.status = 502)]_vars

C9_Witness ==
  /\ last.op = "initiate" /\ last.outcome = "timeout" /\ last.changed
  /\ Cardinality(DOMAIN txns) = 2

\* C10: an initiate_payment whose id list is empty, is not a list, or holds
\* an id that is not an item of the given session is answered 400, creates
\* no transaction and makes no gateway call.
C10_UnresolvedItemRejected ==
  (/\ last.op = "initiate" /\ ~last.ireq.missing
   /\ \/ last.ireq.payment_item_ids.kind # "list"
      \/ last.ireq.payment_item_ids.ids = <<>>
      \/ \E i \in Range(last.ireq.payment_item_ids.ids) :
           i \notin ItemIds \/ ItemSession[i] # last.ireq.session_id)
    => (/\ last.status = 400 /\ ~last.changed
        /\ last.gateway = 0 /\ last.outcome = "none")

C10_Witness ==
  /\ last.op = "initiate" /\ last.status = 400
  /\ last.ireq.session_id = 1
  /\ last.ireq.payment_item_ids = IdList(<<1, 3>>)
  /\ DOMAIN txns # {}

\* C11: after a successful initiate_payment the row holds the base amount (the
\* sum of the prices of the items named), the amount handed to the gateway is
\* that base plus the fee the calculator gives for it, and the response
\* reports the same base, fee and total.
C11_BaseStoredTotalCharged ==
  (last.op = "initiate" /\ last.status = 201)
    => LET base == SumAmounts(ItemIds \cap Range(last.ireq.payment_item_ids.ids))
           fee == calculate_paystack_charges(Thousandths(base)).transaction_fee
       IN /\ StateOf(txns, last.ref) # "UNKNOWN"
          /\ txns[last.ref].amount_paid = base
          /\ fee > 0
          /\ last.gateway = base + fee
          /\ last.base_amount = base
          /\ last.transaction_fee = fee
          /\ last.total_amount = base + fee

C11_Witness ==
  /\ last.op = "initiate" /\ last.status = 201
  /\ last.ireq.payment_item_ids = IdList(<<1, 2>>)
  /\ txns[last.ref].amount_paid = 350000
  /\ last.gateway = 365250

\* C12: initiate_payment answers 201 only with the non-empty checkout URL the
\* provider's answer carries, and answers 502 when that answer looks
\* successful but carries no URL or an empty one.
C12_SuccessNeedsCheckoutUrl ==
  last.op = "initiate"
    => /\ last.status = 201
            => /\ last.checkout_url \notin {"None", ""}
               /\ last.checkout_url \in {ResponseData(last.outcome).data_url,
                                         ResponseData(last.outcome).top_url}
       /\ last.outcome \in {"nourl", "emptyurl", "nodata"} => last.status = 502

C12_Witness ==
  /\ last.op = "initiate" /\ last.outcome = "emptyurl" /\ last.status = 502
  /\ ResponseData(last.outcome).status = "True"

\* C13: for a non-negative amount of two decimals the fee is 1.5% of it
\* rounded half up to the kobo, plus 100.00 from 2500.00 on, and at most
\* 2000.00; the base returned is the amount given.
C13_FeeFormula ==
  (calc.fn = "charges" /\ calc.amount % 10 = 0)
    => LET base == calc.amount \div 10
           percent == (base * 15 + 500) \div 1000
           uncapped == IF base >= 250000 THEN percent + 10000 ELSE percent
       IN /\ calc.out.base_amount = base
          /\ calc.out.transaction_fee = (IF uncapped < 200000 THEN uncapped ELSE 200000)

\* 1.00 -> 0.02 (0.015 rounded half up), and the three examples
C13_Witness ==
  /\ calc.fn = "charges" /\ calc.amount = 1000
  /\ calc.out.transaction_fee = 2
  /\ calculate_paystack_charges(1000000).transaction_fee = 1500
  /\ calculate_paystack_charges(5000000).transaction_fee = 17500
  /\ calculate_paystack_charges(150000000).transaction_fee = 200000

\* C14: whatever the amount given, the total returned is the base returned
\* plus the fee returned, and each of the three is a Decimal of two fraction
\* digits.
C14_TotalIsBasePlusFee ==
  calc.fn = "charges"
    => /\ calc.out.total_amount - calc.out.transaction_fee - calc.out.base_amount = 0
       /\ \A f \in {"base_amount", "transaction_fee", "total_amount"} :
            calc.out.places[f] = 2

\* 150000.005 is read as 150000.00 (half even), the fee is capped
C14_Witness ==
  /\ calc.fn = "charges" /\ calc.amount = 150000005
  /\ calc.out.base_amount = 15000000
  /\ calc.out.transaction_fee = 200000
  /\ calc.out.total_amount = 15200000

\* C15: the verifier answers false when the secret is empty, false when the
\* header is absent or empty, false when the header differs from the hex
\* HMAC-SHA512 of the body under the secret, and true otherwise.
C15_VerifierTruthTable ==
  calc.fn = "verify"
    => calc.out =
         (IF \/ secret = ""
             \/ calc.req.sig \in {"absent", "empty"}
             \/ HeaderSignature(calc.req) # compute_paystack_signature(calc.req.body, secret)
          THEN "False" ELSE "True")

\* C16: the verifier never throws: whatever the body, the header and the
\* secret, it returns a boolean.
C16_VerifierNeverThrows ==
  calc.fn = "verify" => calc.out \in {"True", "False"}

\* C17: a transaction appears only through initiate_payment, an existing one
\* changes only through the webhook, and none is ever removed, whichever
\* operation of the transaction views is called.
C17_OnlyInitiateCreatesOnlyWebhookMutates ==
  [][/\ DOMAIN txns \subseteq DOMAIN txns'
     /\ (DOMAIN txns' # DOMAIN txns) => last'.op = "initiate"
     /\ (\E r \in DOMAIN txns \cap DOMAIN txns' : txns'[r] # txns[r])
          => last'.op = "webhook"]_vars

\* C18: get_status changes no transaction; for an unknown reference it
\* answers exists=false, for a known one the flag the row holds at that moment
\* and the amount stored in it, the base amount of its items.
C18_StatusIsReadOnly ==
  [][(last'.op = "status" /\ last' # last)
       => /\ txns' = txns
          /\ last'.status = 200
          /\ last'.ref \notin DOMAIN txns => ~last'.exists
          /\ last'.ref \in DOMAIN txns
               => /\ last'.exists
                  /\ last'.is_verified = txns[last'.ref].is_verified
                  /\ last'.amount_paid.naira * 100 + last'.amount_paid.kobo
                       = SumAmounts(txns[last'.ref].payment_items)]_vars

\* asked while one worker of the webhook has verified the row and another
\* is still between reading and writing it
C18_Witness ==
  /\ last.op = "status" /\ last.exists /\ last.is_verified
  /\ last.amount_paid = [naira |-> 3500, kobo |-> 0]
  /\ \E w \in Workers : wpc[w] = "loaded"
  /\ \E r \in References : r \notin DOMAIN txns

\* C19: neither bank service lets an exception out; when the provider call
\* was made and failed (no answer, a non-OK status, status not true, a body
\* that is not JSON) get_bank_list returns the static fallback list and
\* verify_account returns None.
C19_BankServicesNeverRaise ==
  LET failed ==
        \/ calc.resp.raised
        \/ ~calc.resp.ok
        \/ calc.resp.content # "json"
        \/ calc.resp.body # "dict"
        \/ calc.resp.status # "True"
  IN /\ calc.fn = "get_bank_list"
          => /\ calc.exc = "none"
             /\ (failed /\ (~calc.cached.set \/ calc.cached.banks = <<>>))
                  => (calc.out = fallback_banks /\ Len(calc.out) = 14)
     /\ calc.fn = "verify_account"
          => /\ calc.exc = "none"
             /\ failed => ~calc.out.found

\* a body that claims to be JSON and is a list, with an empty list cached
C19_Witness ==
  /\ calc.fn = "get_bank_list"
  /\ calc.resp = Answer(TRUE, "json", "list", "absent", NoData)
  /\ calc.cached = [set |-> TRUE, banks |-> <<>>]
  /\ calc.out = fallback_banks
  /\ bank_cache = calc.cached

\* C20: a signature-valid success event whose reference names a PENDING
\* transaction ends with that transaction verified and the answer 200,
\* whether data.amount is absent, null, a number or not numeric.
C20_VerificationIgnoresAmount ==
  (/\ last.op = "webhook" /\ SignatureValid(last.wreq)
   /\ last.wreq.body.shape = "object" /\ last.wreq.body.data = "dict"
   /\ last.wreq.body.event \in SuccessEvents
   /\ last.wreq.body.amount \in AmountKinds
   /\ last.pre = "PENDING")
    => (/\ last.status = 200
        /\ StateOf(txns, last.wreq.body.reference) = "VERIFIED")

\* C21: the flag of a transaction goes from false to true only in the step
\* that consumes a webhook request with a valid signature, a success event
\* type and that transaction's reference; a step of initiate_payment or of
\* get_status never leaves a flag true that was not true before.
C21_VerifiedOnlyByValidWebhook ==
  [][\A r \in DOMAIN txns' :
       (txns'[r].is_verified /\ StateOf(txns, r) # "VERIFIED")
         => /\ last'.op = "webhook"
            /\ SignatureValid(last'.wreq)
            /\ last'.wreq.body.event \in SuccessEvents
            /\ last'.wreq.body.reference = r
            /\ StateOf(txns, r) = "PENDING"]_vars

\* one row verified by a transfer.success event, the other created after
\* that with a failed gateway call, then asked about
C21_Witness ==
  /\ last.op = "status" /\ last.pre = "PENDING"
  /\ \E r \in DOMAIN txns : txns[r].is_verified /\ writes[r] = 1
  /\ \E r \in DOMAIN txns : ~txns[r].is_verified

\* C22: for an amount of more than two fraction digits the base returned is
\* the amount rounded half up to the kobo, and the fee is the fee of that
\* rounded amount.
C22_InputRoundedHalfUp ==
  (calc.fn = "charges" /\ calc.amount % 10 # 0)
    => LET base == (calc.amount + 5) \div 10
       IN /\ calc.out.base_amount = base
          /\ calc.out.transaction_fee
               = calculate_paystack_charges(Thousandths(base)).transaction_fee

C24_CachedListServedWithinTtl ==
  /\ (calc.fn = "get_bank_list" /\ calc.cached.set)
       => (~calc.called /\ calc.out = calc.cached.banks)
  /\ bank_cache.set => bank_cache.banks # fallback_banks

\* C25: a signature-valid success event for a reference that names no
\* transaction changes nothing; a transaction created later under that
\* reference starts PENDING, stays PENDING in every step that does not consume
\* a success event for it, and is VERIFIED after the step that consumes a
\* signature-valid success event for it.
C25_EarlyWebhookLeavesNoTrace ==
  [][\A r \in References :
       LET delivery == /\ last'.op = "webhook"
                       /\ last'.wreq.body.event \in SuccessEvents
                       /\ last'.wreq.body.reference = r
       IN /\ (delivery /\ SignatureValid(last'.wreq) /\ r \notin DOMAIN txns)
               => (early'[r] /\ txns' = txns /\ writes' = writes /\ last'.status = 200)
          /\ (early[r] /\ r \notin DOMAIN txns /\ r \in DOMAIN txns')
               => StateOf(txns', r) = "PENDING"
          /\ (early[r] /\ StateOf(txns, r) = "PENDING" /\ ~delivery)
               => StateOf(txns', r) = "PENDING"
          /\ (early[r] /\ StateOf(txns, r) = "PENDING" /\ delivery
                /\ SignatureValid(last'.wreq))
               => StateOf(txns', r) = "VERIFIED"]_vars

\* C26 as stated: an id list is accepted exactly when every distinct id in it
\* is an item of the session given; the row then holds each distinct item
\* once, and its amount counts each once.
C26_AcceptedIffAllResolve ==
  (/\ last.op = "initiate" /\ ~last.ireq.missing
   /\ last.ireq.payer_id \in PayerIds
   /\ last.ireq.association_id \in AssociationIds
   /\ last.ireq.session_id \in SessionIds
   /\ last.ireq.payment_item_ids.kind = "list")
    => LET ids == Range(last.ireq.payment_item_ids.ids)
           resolved == \A i \in ids :
                         i \in ItemIds /\ ItemSession[i] = last.ireq.session_id
       IN /\ (last.status # 400) <=> resolved
          /\ (last.status # 400)
               => /\ txns[last.ref].payment_items = ids
                  /\ txns[last.ref].amount_paid = SumAmounts(ids)

\* C26 as amended: a list that is not empty is accepted exactly when every
\* distinct id in it is an item of the session given (an empty list is
\* rejected); the row then holds each distinct item once, and its amount
\* counts each once.
C26_NonEmptyAcceptedIffAllResolve ==
  (/\ last.op = "initiate" /\ ~last.ireq.missing
   /\ last.ireq.payer_id \in PayerIds
   /\ last.ireq.association_id \in AssociationIds
   /\ last.ireq.session_id \in SessionIds
   /\ last.ireq.payment_item_ids.kind = "list")
    => LET ids == Range(last.ireq.payment_item_ids.ids)
           resolved == \A i \in ids :
                         i \in ItemIds /\ ItemSession[i] = last.ireq.session_id
       IN /\ (last.status # 400) <=> (resolved /\ ids # {})
          /\ (last.status # 400)
               => /\ txns[last.ref].payment_items = ids
                  /\ txns[last.ref].amount_paid = SumAmounts(ids)

\* item 2 named twice: accepted, and paid for once
C26_Witness ==
  /\ last.op = "initiate" /\ last.status = 201
  /\ last.ireq.payment_item_ids = IdList(<<2, 2>>)
  /\ txns[last.ref].payment_items = {2}
  /\ txns[last.ref].amount_paid = 250000

\* C27: of two amounts of two decimals the greater never has the smaller
\* fee, no fee is above 2000.00, and the greater has the greater total.
C27_FeeMonotone ==
  calc.fn = "compare"
    => /\ calc.out_a.transaction_fee <= calc.out_b.transaction_fee
       /\ calc.out_b.transaction_fee <= 200000
       /\ calc.a < calc.b => calc.out_a.total_amount < calc.out_b.total_amount

\* 2499.99 and 2500.00, either side of the flat fee; and the cap reached
C27_Witness ==
  /\ calc.fn = "compare" /\ calc.a = 2499990 /\ calc.b = 2500000
  /\ calc.out_a.transaction_fee = 3750 /\ calc.out_b.transaction_fee = 13750
  /\ calculate_paystack_charges(126667000).transaction_fee = 200000
  /\ calculate_paystack_charges(126666000).transaction_fee = 199999

\* C28: whatever creations, set_current calls and saves came before, at most
\* one session is active; and right after a creation or a set_current that
\* completed, current_session is that session and it is active.
C28_OneActiveSession ==
  /\ Cardinality({p \in DOMAIN association.sessions :
                    association.sessions[p].is_active}) <= 1
  /\ (calc.fn \in {"perform_create", "set_current"} /\ calc.completed)
       => /\ association.current_session = calc.session
          /\ calc.session \in DOMAIN association.sessions
          /\ association.sessions[calc.session].is_active

\* set_current on the oldest of three sessions after the newest was current
C28_Witness ==
  /\ calc.fn = "set_current" /\ calc.completed /\ calc.session = 1
  /\ DOMAIN association.sessions = {1, 2, 3}
  /\ association.current_session = 1
  /\ ~association.sessions[3].is_active
====
